---- MODULE Spec2Model ----
(***************************************************************************)
(* DeviceBuffer<T> of crates/cust/src/memory/device/device_buffer.rs: an   *)
(* exclusively owned device allocation, its constructors, the fallible     *)
(* explicit destroy (DeviceBuffer::drop) and the implicit destructor       *)
(* (impl Drop).  The driver primitives (cuda_malloc, cuda_free, the memset *)
(* and the copies of DeviceSlice) live in other files of the crate; they   *)
(* are modelled from their interface contract, with the driver's outcome   *)
(* (success or error) as an input of every call.                           *)
(*                                                                         *)
(* Three specifications share the operators: Spec, a client that builds    *)
(* and destroys buffers in any order; SpecTests, the programs of mod       *)
(* test_device_buffer, with the element values followed through the        *)
(* copies; SpecRaw, a client that forgets and adopts raw parts and borrows *)
(* views.                                                                  *)
(***************************************************************************)
EXTENDS Integers, Sequences, FiniteSets, Bags

\* ---------------------------------------------------------------- bounds
\* Allocations the device has room for at once.
MaxAllocs == 1
\* Buffer values the client holds at once.
MaxBufs == 1
\* Longest host slice / largest element count that is really allocated.
MaxLen == 1
\* Copies the stream holds at once.
MaxQueue == 1
\* Width of usize, scaled down.
UsizeBits == 6
\* Largest element value of a host array.
MaxVal == 1

\* ------------------------------------------------------------- constants
\* DevicePointer::null()
Null == 0

UsizeMax == 2 ^ UsizeBits - 1
\* size_of::<T>() of the element types used: ZeroSizedType and u64.
ElemSizes == {0, 8}
\* An element count whose byte size does not fit usize for an 8-byte element.
BigSize == UsizeMax \div 8 + 1
Sizes == (0 .. MaxLen) \cup {BigSize}
Handles == 1 .. MaxAllocs
\* slice.len() of the host slices; the element values play no part in
\* allocation and destruction and are left out.
SliceLens == 0 .. MaxLen

\* Element values: what a zero-fill writes, what host arrays hold, what
\* device memory holds before it is written, and what a destination array
\* holds before a copy into it.
Zero == 0
Values == 1 .. MaxVal
Uninit == MaxVal + 1
Stale == MaxVal + 2

\* size * mem::size_of::<T>() in usize arithmetic (wrapping).
WrapMul(a, b) == (a * b) % (2 ^ UsizeBits)

VARIABLES
    live,    \* handles of the allocations the driver holds
    queue,   \* the stream: copies enqueued and not yet executed
    bufs,    \* the DeviceBuffer values the client holds (a bag)
    last,    \* the last operation: arguments, result, driver calls
    mem,     \* device memory: handle -> the element values of its allocation
    src,     \* the host array copies read (`start` of the tests) and the
             \* size of its element type
    host,    \* the host array copies write (`end` of the tests)
    raw,     \* raw parts (pointer, length) the client took from a buffer
    pc       \* the steps a test program has made so far

vars == <<live, queue, bufs, last, mem, src, host, raw, pc>>

\* A DeviceBuffer<T>: buf, capacity, and size_of::<T>() of its element type.
DeviceBuffer(ptr, capacity, esz) == [buf |-> ptr, capacity |-> capacity, esz |-> esz]

\* The driver state the primitives act on, and the calls made so far.
Dev == [live |-> live, queue |-> queue, calls |-> <<>>]

Call(prim, h, n, ok, wasLive) ==
    [prim |-> prim, h |-> h, n |-> n, ok |-> ok, wasLive |-> wasLive]
Log(d, c) == [d EXCEPT !.calls = Append(@, c)]

\* ------------------------------------------------- driver primitives
\* cuda_malloc::<T>(count): the byte size is checked, then the driver
\* allocates or reports an error (always, when the device is full); it
\* never partially succeeds.  The address is the lowest one not in use.
cuda_malloc(d, count, esz, ok) ==
    IF count * esz > UsizeMax \/ count * esz = 0
    THEN [d |-> Log(d, Call("malloc", Null, count, FALSE, FALSE)),
          ok |-> FALSE, err |-> "InvalidMemoryAllocation", ptr |-> Null]
    ELSE IF ~ok \/ d.live = Handles
    THEN [d |-> Log(d, Call("malloc", Null, count, FALSE, FALSE)),
          ok |-> FALSE, err |-> "OutOfMemory", ptr |-> Null]
    ELSE LET h == CHOOSE x \in Handles \ d.live : \A y \in Handles \ d.live : x <= y
             d1 == [d EXCEPT !.live = @ \cup {h}]
         IN [d |-> Log(d1, Call("malloc", h, count, TRUE, FALSE)),
             ok |-> TRUE, err |-> "", ptr |-> h]

\* cuda_free(ptr): on success the allocation is gone; on error it is not
\* released.
cuda_free(d, ptr, ok) ==
    LET c == Call("free", ptr, 0, ok, ptr \in d.live)
    IN IF ok
       THEN [d |-> Log([d EXCEPT !.live = @ \ {ptr}], c),
             ok |-> TRUE, err |-> ""]
       ELSE [d |-> Log(d, c), ok |-> FALSE, err |-> "DeallocationError"]

\* cuMemsetD8_v2(ptr, 0, bytes).to_result()
cuMemsetD8_v2(d, ptr, bytes, ok) ==
    LET c == Call("memset", ptr, bytes, ok, ptr \in d.live)
    IN IF ok
       THEN [d |-> Log(d, c), ok |-> TRUE, err |-> ""]
       ELSE [d |-> Log(d, c), ok |-> FALSE, err |-> "MemsetError"]

\* A DeviceSlice<T>, the borrowed view: ptr, len, and size_of::<T>().
DeviceSlice(ptr, len, esz) == [ptr |-> ptr, len |-> len, esz |-> esz]

\* DeviceSlice::copy_from(&[T]) with a slice of len elements: the lengths
\* must agree (assert), an empty byte range issues no driver call, otherwise
\* cuMemcpyHtoD.
copy_from(d, self, len, ok) ==
    IF len # self.len
    THEN [d |-> d, ok |-> FALSE, err |-> "panic"]
    ELSE IF self.esz * len = 0
    THEN [d |-> d, ok |-> TRUE, err |-> ""]
    ELSE LET c == Call("copy", self.ptr, len, ok, self.ptr \in d.live)
         IN IF ok
            THEN [d |-> Log(d, c), ok |-> TRUE, err |-> ""]
            ELSE [d |-> Log(d, c), ok |-> FALSE, err |-> "CopyError"]

\* DeviceSlice::async_copy_from(&[T], &Stream): as copy_from, but the copy
\* is enqueued on the stream (cuMemcpyHtoDAsync) and runs later.
async_copy_from(d, self, len, ok) ==
    IF len # self.len
    THEN [d |-> d, ok |-> FALSE, err |-> "panic"]
    ELSE IF self.esz * len = 0
    THEN [d |-> d, ok |-> TRUE, err |-> ""]
    ELSE LET c == Call("copy_async", self.ptr, len, ok, self.ptr \in d.live)
         IN IF ok
            THEN [d |-> Log([d EXCEPT !.queue =
                                 Append(@, [kind |-> "h2d", h |-> self.ptr, n |-> len])], c),
                  ok |-> TRUE, err |-> ""]
            ELSE [d |-> Log(d, c), ok |-> FALSE, err |-> "CopyError"]

\* DeviceSlice::copy_to(&mut [T]) with a destination of len elements: the
\* same length assert, then cuMemcpyDtoH unless the byte range is empty.
copy_to(d, self, len, ok) ==
    IF len # self.len
    THEN [d |-> d, ok |-> FALSE, err |-> "panic"]
    ELSE IF self.esz * len = 0
    THEN [d |-> d, ok |-> TRUE, err |-> ""]
    ELSE LET c == Call("copy_to", self.ptr, len, ok, self.ptr \in d.live)
         IN IF ok
            THEN [d |-> Log(d, c), ok |-> TRUE, err |-> ""]
            ELSE [d |-> Log(d, c), ok |-> FALSE, err |-> "CopyError"]

\* DeviceSlice::async_copy_to(&mut [T], &Stream): cuMemcpyDtoHAsync.
async_copy_to(d, self, len, ok) ==
    IF len # self.len
    THEN [d |-> d, ok |-> FALSE, err |-> "panic"]
    ELSE IF self.esz * len = 0
    THEN [d |-> d, ok |-> TRUE, err |-> ""]
    ELSE LET c == Call("copy_to_async", self.ptr, len, ok, self.ptr \in d.live)
         IN IF ok
            THEN [d |-> Log([d EXCEPT !.queue =
                                 Append(@, [kind |-> "d2h", h |-> self.ptr, n |-> len])], c),
                  ok |-> TRUE, err |-> ""]
            ELSE [d |-> Log(d, c), ok |-> FALSE, err |-> "CopyError"]

\* A device-to-device copy call: h is written, from is read.
CallD2D(prim, h, from, n, ok, wasLive) ==
    [prim |-> prim, h |-> h, from |-> from, n |-> n, ok |-> ok, wasLive |-> wasLive]

\* DeviceSlice::copy_from(&DeviceSlice<T>): self is written from value
\* (cuMemcpyDtoD_v2), after the same length assert.
copy_from_device(d, self, value, ok) ==
    IF value.len # self.len
    THEN [d |-> d, ok |-> FALSE, err |-> "panic"]
    ELSE IF self.esz * self.len = 0
    THEN [d |-> d, ok |-> TRUE, err |-> ""]
    ELSE LET c == CallD2D("copy_d2d", self.ptr, value.ptr, self.len, ok,
                          {self.ptr, value.ptr} \subseteq d.live)
         IN IF ok
            THEN [d |-> Log(d, c), ok |-> TRUE, err |-> ""]
            ELSE [d |-> Log(d, c), ok |-> FALSE, err |-> "CopyError"]

\* DeviceSlice::copy_to(&mut DeviceSlice<T>): value is written from self.
copy_to_device(d, self, value, ok) ==
    IF value.len # self.len
    THEN [d |-> d, ok |-> FALSE, err |-> "panic"]
    ELSE IF self.esz * self.len = 0
    THEN [d |-> d, ok |-> TRUE, err |-> ""]
    ELSE LET c == CallD2D("copy_d2d", value.ptr, self.ptr, self.len, ok,
                          {self.ptr, value.ptr} \subseteq d.live)
         IN IF ok
            THEN [d |-> Log(d, c), ok |-> TRUE, err |-> ""]
            ELSE [d |-> Log(d, c), ok |-> FALSE, err |-> "CopyError"]

\* DeviceSlice::async_copy_from(&DeviceSlice<T>, &Stream): cuMemcpyDtoDAsync_v2.
async_copy_from_device(d, self, value, ok) ==
    IF value.len # self.len
    THEN [d |-> d, ok |-> FALSE, err |-> "panic"]
    ELSE IF self.esz * self.len = 0
    THEN [d |-> d, ok |-> TRUE, err |-> ""]
    ELSE LET c == CallD2D("copy_d2d_async", self.ptr, value.ptr, self.len, ok,
                          {self.ptr, value.ptr} \subseteq d.live)
         IN IF ok
            THEN [d |-> Log([d EXCEPT !.queue = Append(@,
                      [kind |-> "d2d", h |-> self.ptr, from |-> value.ptr, n |-> self.len])], c),
                  ok |-> TRUE, err |-> ""]
            ELSE [d |-> Log(d, c), ok |-> FALSE, err |-> "CopyError"]

\* DeviceSlice::async_copy_to(&mut DeviceSlice<T>, &Stream)
async_copy_to_device(d, self, value, ok) ==
    IF value.len # self.len
    THEN [d |-> d, ok |-> FALSE, err |-> "panic"]
    ELSE IF self.esz * self.len = 0
    THEN [d |-> d, ok |-> TRUE, err |-> ""]
    ELSE LET c == CallD2D("copy_d2d_async", value.ptr, self.ptr, self.len, ok,
                          {self.ptr, value.ptr} \subseteq d.live)
         IN IF ok
            THEN [d |-> Log([d EXCEPT !.queue = Append(@,
                      [kind |-> "d2d", h |-> value.ptr, from |-> self.ptr, n |-> self.len])], c),
                  ok |-> TRUE, err |-> ""]
            ELSE [d |-> Log(d, c), ok |-> FALSE, err |-> "CopyError"]

\* ------------------------------------------------- DeviceBuffer<T>
\* uninitialized as it would be if the element size were not tested.
uninitialized_ignores_esz(d, size, esz, mOk) ==
    IF size > 0
    THEN LET a == cuda_malloc(d, size, esz, mOk)
         IN IF ~a.ok
            THEN [d |-> a.d, ok |-> FALSE, err |-> a.err, ret |-> <<>>]
            ELSE [d |-> a.d, ok |-> TRUE, err |-> "",
                  ret |-> <<DeviceBuffer(a.ptr, size, esz)>>]
    ELSE [d |-> d, ok |-> TRUE, err |-> "", ret |-> <<DeviceBuffer(Null, size, esz)>>]

\* uninitialized as it would be if the result of cuda_malloc were not
\* checked (no `?`).
uninitialized_unchecked(d, size, esz, mOk) ==
    IF size > 0 /\ esz > 0
    THEN LET a == cuda_malloc(d, size, esz, mOk)
         IN [d |-> a.d, ok |-> TRUE, err |-> "",
             ret |-> <<DeviceBuffer(a.ptr, size, esz)>>]
    ELSE [d |-> d, ok |-> TRUE, err |-> "", ret |-> <<DeviceBuffer(Null, size, esz)>>]

\* DeviceBuffer::uninitialized(size)
uninitialized(d, size, esz, mOk) ==
    IF size > 0 /\ esz > 0
    THEN LET a == cuda_malloc(d, size, esz, mOk)
         IN IF ~a.ok
            THEN [d |-> a.d, ok |-> FALSE, err |-> a.err, ret |-> <<>>]
            ELSE [d |-> a.d, ok |-> TRUE, err |-> "",
                  ret |-> <<DeviceBuffer(a.ptr, size, esz)>>]
    ELSE [d |-> d, ok |-> TRUE, err |-> "", ret |-> <<DeviceBuffer(Null, size, esz)>>]

\* zeroed as it would be if the result of cuda_malloc were not checked
\* (no `?`): the zero-fill is issued whatever cuda_malloc answered.
zeroed_unchecked(d, size, esz, mOk, zOk) ==
    IF size > 0 /\ esz > 0
    THEN LET a == cuda_malloc(d, size, esz, mOk)
             z == cuMemsetD8_v2(a.d, a.ptr, WrapMul(size, esz), zOk)
         IN IF ~z.ok
            THEN [d |-> z.d, ok |-> FALSE, err |-> z.err, ret |-> <<>>]
            ELSE [d |-> z.d, ok |-> TRUE, err |-> "",
                  ret |-> <<DeviceBuffer(a.ptr, size, esz)>>]
    ELSE [d |-> d, ok |-> TRUE, err |-> "", ret |-> <<DeviceBuffer(Null, size, esz)>>]

\* zeroed as it would be if the zero-fill were given the element count for
\* its byte count (no `* mem::size_of::<T>()`).
zeroed_counts_elements(d, size, esz, mOk, zOk) ==
    IF size > 0 /\ esz > 0
    THEN LET a == cuda_malloc(d, size, esz, mOk)
         IN IF ~a.ok
            THEN [d |-> a.d, ok |-> FALSE, err |-> a.err, ret |-> <<>>]
            ELSE LET z == cuMemsetD8_v2(a.d, a.ptr, size, zOk)
                 IN IF ~z.ok
                    THEN [d |-> z.d, ok |-> FALSE, err |-> z.err, ret |-> <<>>]
                    ELSE [d |-> z.d, ok |-> TRUE, err |-> "",
                          ret |-> <<DeviceBuffer(a.ptr, size, esz)>>]
    ELSE [d |-> d, ok |-> TRUE, err |-> "", ret |-> <<DeviceBuffer(Null, size, esz)>>]

\* DeviceBuffer::zeroed(size): ptr is a plain DevicePointer, so an early
\* return after cuda_malloc runs no destructor on it.
zeroed(d, size, esz, mOk, zOk) ==
    IF size > 0 /\ esz > 0
    THEN LET a == cuda_malloc(d, size, esz, mOk)
         IN IF ~a.ok
            THEN [d |-> a.d, ok |-> FALSE, err |-> a.err, ret |-> <<>>]
            ELSE LET z == cuMemsetD8_v2(a.d, a.ptr, WrapMul(size, esz), zOk)
                 IN IF ~z.ok
                    THEN [d |-> z.d, ok |-> FALSE, err |-> z.err, ret |-> <<>>]
                    ELSE [d |-> z.d, ok |-> TRUE, err |-> "",
                          ret |-> <<DeviceBuffer(a.ptr, size, esz)>>]
    ELSE [d |-> d, ok |-> TRUE, err |-> "", ret |-> <<DeviceBuffer(Null, size, esz)>>]

\* deref as it would be if the view's length were the byte size.
deref_in_bytes(self) == DeviceSlice(self.buf, self.capacity * self.esz, self.esz)

\* deref_mut likewise.
deref_mut_in_bytes(self) == DeviceSlice(self.buf, self.capacity * self.esz, self.esz)

\* Deref::deref(&self) and DerefMut::deref_mut(&mut self): the buffer's two
\* words read as a DeviceSlice.
deref(self) == DeviceSlice(self.buf, self.capacity, self.esz)
deref_mut(self) == DeviceSlice(self.buf, self.capacity, self.esz)

\* from_raw_parts as it would be if it did not take the pointer over.
from_raw_parts_null(ptr, capacity, esz) == DeviceBuffer(Null, capacity, esz)

\* DeviceBuffer::from_raw_parts(ptr, capacity)
from_raw_parts(ptr, capacity, esz) == DeviceBuffer(ptr, capacity, esz)

\* The destructor as it would be if it freed self.buf in place, without
\* mem::replace.
Drop_drop_keeps_handle(d, self, fOk) ==
    IF self.buf = Null
    THEN [d |-> d, self |-> self]
    ELSE IF self.capacity > 0 /\ self.esz > 0
    THEN LET f == cuda_free(d, self.buf, fOk)
         IN [d |-> f.d, self |-> [self EXCEPT !.capacity = 0]]
    ELSE [d |-> d, self |-> [self EXCEPT !.capacity = 0]]

\* The destructor as it would be if it freed every non-null handle, without
\* the test of capacity and element size.
Drop_drop_frees_nonnull(d, self, fOk) ==
    IF self.buf = Null
    THEN [d |-> d, self |-> self]
    ELSE LET ptr == self.buf
             f == cuda_free(d, ptr, fOk)
         IN [d |-> f.d, self |-> [self EXCEPT !.buf = Null, !.capacity = 0]]

\* impl Drop for DeviceBuffer: fn drop(&mut self).  Gives the driver state
\* and the value as the destructor leaves it.
Drop_drop(d, self, fOk) ==
    IF self.buf = Null
    THEN [d |-> d, self |-> self]
    ELSE IF self.capacity > 0 /\ self.esz > 0
    THEN LET ptr == self.buf
             f == cuda_free(d, ptr, fOk)
         IN [d |-> f.d, self |-> [self EXCEPT !.buf = Null, !.capacity = 0]]
    ELSE [d |-> d, self |-> [self EXCEPT !.capacity = 0]]

\* The explicit destroy as it would be if the buffer handed back were built
\* from dev_buf.buf after the mem::replace.
drop_returns_replaced(d, dev_buf, fOk, dOk) ==
    IF dev_buf.buf = Null
    THEN LET r == Drop_drop(d, dev_buf, dOk)
         IN [d |-> r.d, ok |-> TRUE, err |-> "", ret |-> <<>>, residual |-> <<r.self>>]
    ELSE IF dev_buf.capacity > 0 /\ dev_buf.esz > 0
    THEN LET capacity == dev_buf.capacity
             ptr == dev_buf.buf
             replaced == [dev_buf EXCEPT !.buf = Null]
             f == cuda_free(d, ptr, fOk)
         IN IF f.ok
            THEN [d |-> f.d, ok |-> TRUE, err |-> "", ret |-> <<>>, residual |-> <<>>]
            ELSE LET r == Drop_drop(f.d, replaced, dOk)
                 IN [d |-> r.d, ok |-> FALSE, err |-> f.err,
                     ret |-> <<from_raw_parts(replaced.buf, capacity, dev_buf.esz)>>,
                     residual |-> <<r.self>>]
    ELSE LET r == Drop_drop(d, dev_buf, dOk)
         IN [d |-> r.d, ok |-> TRUE, err |-> "", ret |-> <<>>, residual |-> <<r.self>>]

\* The explicit destroy as it would be if it passed dev_buf.buf to cuda_free
\* without mem::replace: on an error the consumed value still carries the
\* handle when its destructor runs.
drop_keeps_handle(d, dev_buf, fOk, dOk) ==
    IF dev_buf.buf = Null
    THEN LET r == Drop_drop(d, dev_buf, dOk)
         IN [d |-> r.d, ok |-> TRUE, err |-> "", ret |-> <<>>, residual |-> <<r.self>>]
    ELSE IF dev_buf.capacity > 0 /\ dev_buf.esz > 0
    THEN LET capacity == dev_buf.capacity
             ptr == dev_buf.buf
             f == cuda_free(d, ptr, fOk)
         IN IF f.ok
            THEN [d |-> f.d, ok |-> TRUE, err |-> "", ret |-> <<>>, residual |-> <<>>]
            ELSE LET r == Drop_drop(f.d, dev_buf, dOk)
                 IN [d |-> r.d, ok |-> FALSE, err |-> f.err,
                     ret |-> <<from_raw_parts(ptr, capacity, dev_buf.esz)>>,
                     residual |-> <<r.self>>]
    ELSE LET r == Drop_drop(d, dev_buf, dOk)
         IN [d |-> r.d, ok |-> TRUE, err |-> "", ret |-> <<>>, residual |-> <<r.self>>]

\* The explicit destroy as it would be with neither mem::replace nor
\* mem::forget: after a successful free the consumed value is dropped with
\* its handle.
drop_not_forgotten(d, dev_buf, fOk, dOk) ==
    IF dev_buf.buf = Null
    THEN LET r == Drop_drop(d, dev_buf, dOk)
         IN [d |-> r.d, ok |-> TRUE, err |-> "", ret |-> <<>>, residual |-> <<r.self>>]
    ELSE IF dev_buf.capacity > 0 /\ dev_buf.esz > 0
    THEN LET capacity == dev_buf.capacity
             ptr == dev_buf.buf
             replaced == [dev_buf EXCEPT !.buf = Null]
             f == cuda_free(d, ptr, fOk)
         IN IF f.ok
            THEN LET r == Drop_drop(f.d, dev_buf, dOk)
                 IN [d |-> r.d, ok |-> TRUE, err |-> "", ret |-> <<>>,
                     residual |-> <<r.self>>]
            ELSE LET r == Drop_drop(f.d, replaced, dOk)
                 IN [d |-> r.d, ok |-> FALSE, err |-> f.err,
                     ret |-> <<from_raw_parts(ptr, capacity, dev_buf.esz)>>,
                     residual |-> <<r.self>>]
    ELSE LET r == Drop_drop(d, dev_buf, dOk)
         IN [d |-> r.d, ok |-> TRUE, err |-> "", ret |-> <<>>, residual |-> <<r.self>>]

\* DeviceBuffer::drop(dev_buf): the explicit destroy.  residual is the
\* consumed value after its own destructor ran (none when it was forgotten);
\* dOk is the driver's answer to a free that destructor would issue.
drop(d, dev_buf, fOk, dOk) ==
    IF dev_buf.buf = Null
    THEN LET r == Drop_drop(d, dev_buf, dOk)
         IN [d |-> r.d, ok |-> TRUE, err |-> "", ret |-> <<>>, residual |-> <<r.self>>]
    ELSE IF dev_buf.capacity > 0 /\ dev_buf.esz > 0
    THEN LET capacity == dev_buf.capacity
             ptr == dev_buf.buf
             replaced == [dev_buf EXCEPT !.buf = Null]
             f == cuda_free(d, ptr, fOk)
         IN IF f.ok
            THEN [d |-> f.d, ok |-> TRUE, err |-> "", ret |-> <<>>, residual |-> <<>>]
            ELSE LET r == Drop_drop(f.d, replaced, dOk)
                 IN [d |-> r.d, ok |-> FALSE, err |-> f.err,
                     ret |-> <<from_raw_parts(ptr, capacity, dev_buf.esz)>>,
                     residual |-> <<r.self>>]
    ELSE LET r == Drop_drop(d, dev_buf, dOk)
         IN [d |-> r.d, ok |-> TRUE, err |-> "", ret |-> <<>>, residual |-> <<r.self>>]

\* from_slice as it would be if the buffer were forgotten on a copy error
\* (no destructor runs).
from_slice_forgets(d, len, esz, mOk, cOk, fOk) ==
    LET a == uninitialized(d, len, esz, mOk)
    IN IF ~a.ok
       THEN a
       ELSE LET c == copy_from(a.d, deref_mut(a.ret[1]), len, cOk)
            IN IF ~c.ok
               THEN [d |-> c.d, ok |-> FALSE, err |-> c.err, ret |-> <<>>]
               ELSE [d |-> c.d, ok |-> TRUE, err |-> "", ret |-> a.ret]

\* from_slice as it would be without the copy_from.
from_slice_skips_copy(d, len, esz, mOk, cOk, fOk) ==
    uninitialized(d, len, esz, mOk)

\* DeviceBuffer::from_slice(slice): on a copy error uninit goes out of scope
\* and its destructor runs.
from_slice(d, len, esz, mOk, cOk, fOk) ==
    LET a == uninitialized(d, len, esz, mOk)
    IN IF ~a.ok
       THEN a
       ELSE LET c == copy_from(a.d, deref_mut(a.ret[1]), len, cOk)
            IN IF ~c.ok
               THEN LET r == Drop_drop(c.d, a.ret[1], fOk)
                    IN [d |-> r.d, ok |-> FALSE, err |-> c.err, ret |-> <<>>]
               ELSE [d |-> c.d, ok |-> TRUE, err |-> "", ret |-> a.ret]

\* DeviceBuffer::from_slice_async(slice, stream)
from_slice_async(d, len, esz, mOk, cOk, fOk) ==
    LET a == uninitialized(d, len, esz, mOk)
    IN IF ~a.ok
       THEN a
       ELSE LET c == async_copy_from(a.d, deref_mut(a.ret[1]), len, cOk)
            IN IF ~c.ok
               THEN LET r == Drop_drop(c.d, a.ret[1], fOk)
                    IN [d |-> r.d, ok |-> FALSE, err |-> c.err, ret |-> <<>>]
               ELSE [d |-> c.d, ok |-> TRUE, err |-> "", ret |-> a.ret]

\* ------------------------------------------------------------- actions
Init ==
    /\ live = {}
    /\ queue = <<>>
    /\ bufs = EmptyBag
    /\ last = [op |-> "init", size |-> 0, esz |-> 0, arg |-> <<>>, ok |-> TRUE,
               err |-> "", ret |-> <<>>, residual |-> <<>>, calls |-> <<>>]
    /\ mem = [h \in Handles |-> <<>>]
    /\ src = [esz |-> 0, data |-> <<>>]
    /\ host = <<>>
    /\ raw = <<>>
    /\ pc = <<>>

\* The operations below are taken for their allocations and frees alone:
\* element values, host arrays, raw parts and the test program stay put.
Lifecycle == UNCHANGED <<mem, src, host, raw, pc>>

\* The driver's answers an operation can ask for: either one when it may
\* make the call, success when it cannot.
Outcomes(asked) == IF asked THEN BOOLEAN ELSE {TRUE}

\* The driver state after an operation.
Commit(d) ==
    /\ live' = d.live
    /\ queue' = d.queue

Holds(b) == BagIn(b, bufs)
Take(b) == bufs (-) SetToBag({b})
Give(bag, b) == bag (+) SetToBag({b})

\* A constructor's result is bound to a client variable when it is Ok.
Bind(r) == bufs' = IF r.ok THEN Give(bufs, r.ret[1]) ELSE bufs

Record(op, size, esz, arg, r, residual) ==
    last' = [op |-> op, size |-> size, esz |-> esz, arg |-> arg, ok |-> r.ok,
             err |-> r.err, ret |-> r.ret, residual |-> residual,
             calls |-> r.d.calls]

\* let b = DeviceBuffer::<T>::uninitialized(size)
Uninitialized(size, esz) ==
    /\ BagCardinality(bufs) < MaxBufs
    /\ \E mOk \in Outcomes(size > 0 /\ esz > 0) :
         LET r == uninitialized(Dev, size, esz, mOk)
         IN /\ Commit(r.d)
            /\ Bind(r)
            /\ Record("uninitialized", size, esz, <<>>, r, <<>>)
    /\ Lifecycle

\* let b = DeviceBuffer::<T>::zeroed(size)
Zeroed(size, esz) ==
    /\ BagCardinality(bufs) < MaxBufs
    /\ \E mOk \in Outcomes(size > 0 /\ esz > 0) :
       \E zOk \in Outcomes(size > 0 /\ esz > 0) :
         LET r == zeroed(Dev, size, esz, mOk, zOk)
         IN /\ Commit(r.d)
            /\ Bind(r)
            /\ Record("zeroed", size, esz, <<>>, r, <<>>)
    /\ Lifecycle

\* let b = DeviceBuffer::from_slice(slice), slice.len() = len
FromSlice(len, esz) ==
    /\ BagCardinality(bufs) < MaxBufs
    /\ \E mOk \in Outcomes(len > 0 /\ esz > 0) :
       \E cOk \in Outcomes(len > 0 /\ esz > 0) :
       \E fOk \in Outcomes(~cOk) :
         LET r == from_slice(Dev, len, esz, mOk, cOk, fOk)
         IN /\ Commit(r.d)
            /\ Bind(r)
            /\ Record("from_slice", len, esz, <<>>, r, <<>>)
    /\ Lifecycle

\* let b = DeviceBuffer::from_slice_async(slice, &stream), slice.len() = len
FromSliceAsync(len, esz) ==
    /\ BagCardinality(bufs) < MaxBufs
    /\ Len(queue) < MaxQueue
    /\ \E mOk \in Outcomes(len > 0 /\ esz > 0) :
       \E cOk \in Outcomes(len > 0 /\ esz > 0) :
       \E fOk \in Outcomes(~cOk) :
         LET r == from_slice_async(Dev, len, esz, mOk, cOk, fOk)
         IN /\ Commit(r.d)
            /\ Bind(r)
            /\ Record("from_slice_async", len, esz, <<>>, r, <<>>)
    /\ Lifecycle

\* match DeviceBuffer::drop(b) { Ok(()) => .., Err((e, buf)) => b = buf }
DropExplicit(b) ==
    /\ Holds(b)
    /\ \E fOk \in Outcomes(b.buf # Null) :
       \E dOk \in Outcomes(b.buf # Null) :
         LET r == drop(Dev, b, fOk, dOk)
         IN /\ Commit(r.d)
            /\ bufs' = IF r.ok THEN Take(b) ELSE Give(Take(b), r.ret[1])
            /\ Record("drop", b.capacity, b.esz, <<b>>, r, r.residual)
    /\ Lifecycle

\* b goes out of scope: the implicit destructor runs.
ScopeExit(b) ==
    /\ Holds(b)
    /\ \E fOk \in Outcomes(b.buf # Null) :
         LET r == Drop_drop(Dev, b, fOk)
         IN /\ Commit(r.d)
            /\ bufs' = Take(b)
            /\ Record("Drop", b.capacity, b.esz, <<b>>,
                      [d |-> r.d, ok |-> TRUE, err |-> "", ret |-> <<>>], <<r.self>>)
    /\ Lifecycle

\* The device executes the copy at the head of the stream; last.ok tells
\* whether its target was still allocated.
StreamRun ==
    /\ queue # <<>>
    /\ LET c == Head(queue)
       IN last' = [op |-> "stream_run", size |-> c.n, esz |-> 0, arg |-> <<>>,
                   ok |-> c.h \in live, err |-> "", ret |-> <<>>, residual |-> <<>>,
                   calls |-> <<Call("exec_copy", c.h, c.n, c.h \in live, c.h \in live)>>]
    /\ queue' = Tail(queue)
    /\ UNCHANGED <<live, bufs>>
    /\ Lifecycle

Next ==
    \/ \E size \in Sizes, esz \in ElemSizes : Uninitialized(size, esz)
    \/ \E size \in Sizes, esz \in ElemSizes : Zeroed(size, esz)
    \/ \E len \in SliceLens, esz \in ElemSizes : FromSlice(len, esz)
    \/ \E len \in SliceLens, esz \in ElemSizes : FromSliceAsync(len, esz)
    \/ \E b \in BagToSet(bufs) : DropExplicit(b)
    \/ \E b \in BagToSet(bufs) : ScopeExit(b)
    \/ StreamRun

Spec == Init /\ [][Next]_vars

\* ------------------------------------------------- the test programs
\* The programs of mod test_device_buffer: buffers are built from the host
\* array src, copied through their views, dropped, and the stream is
\* synchronized; every result is unwrapped.  Here the element values are
\* followed through device memory and the host arrays.
Fill(n, v) == [i \in 1 .. n |-> v]
\* The host arrays of an element type; a zero-sized type has one value.
HostArrays(esz) ==
    IF esz = 0
    THEN {Fill(n, Zero) : n \in SliceLens}
    ELSE UNION {[1 .. n -> Values] : n \in SliceLens}
Blank(n, esz) == Fill(n, IF esz = 0 THEN Zero ELSE Stale)

\* Device memory after the driver served calls: a fresh allocation holds
\* unwritten elements, a memset zeroes the elements its bytes cover, a copy
\* stores data, a device-to-device copy stores the source region.
RECURSIVE Effect(_, _, _, _)
Effect(m, calls, esz, data) ==
    IF calls = <<>>
    THEN m
    ELSE LET c == Head(calls)
             m1 == IF ~c.ok \/ (c.prim # "malloc" /\ ~c.wasLive)
                   THEN m
                   ELSE CASE c.prim = "malloc" -> [m EXCEPT ![c.h] = Fill(c.n, Uninit)]
                          [] c.prim = "memset" ->
                                [m EXCEPT ![c.h] = [i \in DOMAIN m[c.h] |->
                                    IF i * esz <= c.n THEN Zero ELSE m[c.h][i]]]
                          [] c.prim = "copy" -> [m EXCEPT ![c.h] = data]
                          [] c.prim = "copy_d2d" -> [m EXCEPT ![c.h] = m[c.from]]
                          [] OTHER -> m
         IN Effect(m1, Tail(calls), esz, data)

\* The destination array after the calls: a device-to-host copy stores the
\* region it read.
HostEffect(m, calls, dest) ==
    LET cs == SelectSeq(calls, LAMBDA c : c.prim = "copy_to" /\ c.ok)
    IN IF cs = <<>> THEN dest ELSE m[cs[1].h]

TestInit ==
    /\ live = {}
    /\ queue = <<>>
    /\ bufs = EmptyBag
    /\ last = [op |-> "init", size |-> 0, esz |-> 0, arg |-> <<>>, ok |-> TRUE,
               err |-> "", ret |-> <<>>, residual |-> <<>>, calls |-> <<>>]
    /\ mem = [h \in Handles |-> <<>>]
    /\ raw = <<>>
    /\ pc = <<>>
    /\ \E esz \in ElemSizes : \E data \in HostArrays(esz) : \E n \in SliceLens :
         /\ src = [esz |-> esz, data |-> data]
         /\ host = Blank(n, esz)

Constructors == {"uninitialized", "zeroed", "from_slice", "from_slice_async"}
\* The longest test makes four steps; a step that fails panics (unwrap).
Running == Len(pc) < 4 /\ \A i \in DOMAIN pc : pc[i] # "panic"
\* The tests build their buffers first, two at most.
Constructing ==
    /\ Running
    /\ BagCardinality(bufs) < 2
    /\ \A i \in DOMAIN pc : pc[i] \in Constructors
\* Then each test makes one copy through a view.
Copying == Running /\ \A i \in DOMAIN pc : pc[i] \in Constructors
Step(name, r) == pc' = Append(pc, IF r.ok THEN name ELSE "panic")
\* Two distinct buffers the program holds.
Two(b, c) == Holds(b) /\ Holds(c) /\ (b = c => CopiesIn(b, bufs) >= 2)
NoRet(c) == [d |-> c.d, ok |-> c.ok, err |-> c.err, ret |-> <<>>]

TestCommit(r) ==
    /\ Commit(r.d)
    /\ mem' = Effect(mem, r.d.calls, src.esz, src.data)
    /\ host' = HostEffect(mem, r.d.calls, host)
    /\ UNCHANGED <<src, raw>>

\* let buf = DeviceBuffer::uninitialized(size).unwrap()
TestUninitialized(size) ==
    /\ Constructing
    /\ \E mOk \in Outcomes(size > 0 /\ src.esz > 0) :
         LET r == uninitialized(Dev, size, src.esz, mOk)
         IN /\ TestCommit(r)
            /\ Bind(r)
            /\ Step("uninitialized", r)
            /\ Record("uninitialized", size, src.esz, <<>>, r, <<>>)

\* let buf = DeviceBuffer::zeroed(size).unwrap()
TestZeroed(size) ==
    /\ Constructing
    /\ \E mOk \in Outcomes(size > 0 /\ src.esz > 0) :
       \E zOk \in Outcomes(size > 0 /\ src.esz > 0) :
         LET r == zeroed(Dev, size, src.esz, mOk, zOk)
         IN /\ TestCommit(r)
            /\ Bind(r)
            /\ Step("zeroed", r)
            /\ Record("zeroed", size, src.esz, <<>>, r, <<>>)

\* let buf = DeviceBuffer::from_slice(&start).unwrap()
TestFromSlice ==
    /\ Constructing
    /\ \E mOk \in Outcomes(Len(src.data) > 0 /\ src.esz > 0) :
       \E cOk \in Outcomes(Len(src.data) > 0 /\ src.esz > 0) :
       \E fOk \in Outcomes(~cOk) :
         LET r == from_slice(Dev, Len(src.data), src.esz, mOk, cOk, fOk)
         IN /\ TestCommit(r)
            /\ Bind(r)
            /\ Step("from_slice", r)
            /\ Record("from_slice", Len(src.data), src.esz, <<>>, r, <<>>)

\* let buf = DeviceBuffer::from_slice_async(&start, &stream).unwrap()
TestFromSliceAsync ==
    /\ Constructing
    /\ Len(queue) < MaxQueue
    /\ \E mOk \in Outcomes(Len(src.data) > 0 /\ src.esz > 0) :
       \E cOk \in Outcomes(Len(src.data) > 0 /\ src.esz > 0) :
       \E fOk \in Outcomes(~cOk) :
         LET r == from_slice_async(Dev, Len(src.data), src.esz, mOk, cOk, fOk)
         IN /\ TestCommit(r)
            /\ Bind(r)
            /\ Step("from_slice_async", r)
            /\ Record("from_slice_async", Len(src.data), src.esz, <<>>, r, <<>>)

\* buf.copy_to(&mut end).unwrap()
TestCopyTo(b) ==
    /\ Copying
    /\ Holds(b)
    /\ \E ok \in Outcomes(Len(host) = b.capacity /\ b.capacity * b.esz > 0) :
         LET r == NoRet(copy_to(Dev, deref(b), Len(host), ok))
         IN /\ TestCommit(r)
            /\ bufs' = bufs
            /\ Step("copy_to", r)
            /\ Record("copy_to", Len(host), b.esz, <<b>>, r, <<>>)

\* buf.copy_from(&start).unwrap()
TestCopyFrom(b) ==
    /\ Copying
    /\ Holds(b)
    /\ \E ok \in Outcomes(Len(src.data) = b.capacity /\ b.capacity * b.esz > 0) :
         LET r == NoRet(copy_from(Dev, deref_mut(b), Len(src.data), ok))
         IN /\ TestCommit(r)
            /\ bufs' = bufs
            /\ Step("copy_from", r)
            /\ Record("copy_from", Len(src.data), b.esz, <<b>>, r, <<>>)

\* buf.async_copy_to(&mut end, &stream).unwrap()
TestAsyncCopyTo(b) ==
    /\ Copying
    /\ Holds(b)
    /\ Len(queue) < MaxQueue
    /\ \E ok \in Outcomes(Len(host) = b.capacity /\ b.capacity * b.esz > 0) :
         LET r == NoRet(async_copy_to(Dev, deref(b), Len(host), ok))
         IN /\ TestCommit(r)
            /\ bufs' = bufs
            /\ Step("async_copy_to", r)
            /\ Record("async_copy_to", Len(host), b.esz, <<b>>, r, <<>>)

\* buf.async_copy_from(&start, &stream).unwrap()
TestAsyncCopyFrom(b) ==
    /\ Copying
    /\ Holds(b)
    /\ Len(queue) < MaxQueue
    /\ \E ok \in Outcomes(Len(src.data) = b.capacity /\ b.capacity * b.esz > 0) :
         LET r == NoRet(async_copy_from(Dev, deref_mut(b), Len(src.data), ok))
         IN /\ TestCommit(r)
            /\ bufs' = bufs
            /\ Step("async_copy_from", r)
            /\ Record("async_copy_from", Len(src.data), b.esz, <<b>>, r, <<>>)

\* buf1.copy_from(&buf2).unwrap()
TestCopyFromDevice(b, c) ==
    /\ Copying
    /\ Two(b, c)
    /\ \E ok \in Outcomes(c.capacity = b.capacity /\ b.capacity * b.esz > 0) :
         LET r == NoRet(copy_from_device(Dev, deref_mut(b), deref(c), ok))
         IN /\ TestCommit(r)
            /\ bufs' = bufs
            /\ Step("copy_from_device", r)
            /\ Record("copy_from_device", c.capacity, b.esz, <<b, c>>, r, <<>>)

\* buf1.copy_to(&mut buf2).unwrap()
TestCopyToDevice(b, c) ==
    /\ Copying
    /\ Two(b, c)
    /\ \E ok \in Outcomes(c.capacity = b.capacity /\ b.capacity * b.esz > 0) :
         LET r == NoRet(copy_to_device(Dev, deref(b), deref_mut(c), ok))
         IN /\ TestCommit(r)
            /\ bufs' = bufs
            /\ Step("copy_to_device", r)
            /\ Record("copy_to_device", c.capacity, b.esz, <<b, c>>, r, <<>>)

\* buf1.async_copy_from(&buf2, &stream).unwrap()
TestAsyncCopyFromDevice(b, c) ==
    /\ Copying
    /\ Two(b, c)
    /\ Len(queue) < MaxQueue
    /\ \E ok \in Outcomes(c.capacity = b.capacity /\ b.capacity * b.esz > 0) :
         LET r == NoRet(async_copy_from_device(Dev, deref_mut(b), deref(c), ok))
         IN /\ TestCommit(r)
            /\ bufs' = bufs
            /\ Step("async_copy_from_device", r)
            /\ Record("async_copy_from_device", c.capacity, b.esz, <<b, c>>, r, <<>>)

\* buf1.async_copy_to(&mut buf2, &stream).unwrap()
TestAsyncCopyToDevice(b, c) ==
    /\ Copying
    /\ Two(b, c)
    /\ Len(queue) < MaxQueue
    /\ \E ok \in Outcomes(c.capacity = b.capacity /\ b.capacity * b.esz > 0) :
         LET r == NoRet(async_copy_to_device(Dev, deref(b), deref_mut(c), ok))
         IN /\ TestCommit(r)
            /\ bufs' = bufs
            /\ Step("async_copy_to_device", r)
            /\ Record("async_copy_to_device", c.capacity, b.esz, <<b, c>>, r, <<>>)

\* buf goes out of scope (the end of the unsafe block, or drop(buf)).
TestScopeExit(b) ==
    /\ Running
    /\ Holds(b)
    /\ \E fOk \in Outcomes(b.buf # Null) :
         LET x == Drop_drop(Dev, b, fOk)
             r == [d |-> x.d, ok |-> TRUE, err |-> "", ret |-> <<>>]
         IN /\ TestCommit(r)
            /\ bufs' = Take(b)
            /\ Step("Drop", r)
            /\ Record("Drop", b.capacity, b.esz, <<b>>, r, <<x.self>>)

\* stream.synchronize().unwrap(): returns once the stream has run all its
\* work, with the driver's answer.
TestSynchronize ==
    /\ Running
    /\ \A i \in DOMAIN pc : pc[i] # "synchronize"
    /\ queue = <<>>
    /\ \E ok \in BOOLEAN :
         LET r == [d |-> Dev, ok |-> ok, err |-> IF ok THEN "" ELSE "StreamError",
                   ret |-> <<>>]
         IN /\ Step("synchronize", r)
            /\ Record("synchronize", 0, src.esz, <<>>, r, <<>>)
    /\ UNCHANGED <<live, queue, bufs, mem, src, host, raw>>

\* What a queued copy may leave in n elements it read from memory that was
\* freed: what the memory last held, or anything else.
Dangling(region, n) == {Fill(n, Uninit)} \cup (IF Len(region) = n THEN {region} ELSE {})

\* The device executes the copy at the head of the stream.
TestStreamRun ==
    /\ queue # <<>>
    /\ LET c == Head(queue)
           hit == IF c.kind = "d2d" THEN {c.h, c.from} \subseteq live ELSE c.h \in live
       IN /\ last' = [op |-> "stream_run", size |-> c.n, esz |-> src.esz, arg |-> <<>>,
                      ok |-> hit, err |-> "", ret |-> <<>>, residual |-> <<>>,
                      calls |-> <<Call("exec_copy", c.h, c.n, hit, hit)>>]
          /\ CASE c.kind = "h2d" ->
                    /\ mem' = IF hit THEN [mem EXCEPT ![c.h] = src.data] ELSE mem
                    /\ host' = host
               [] c.kind = "d2h" ->
                    /\ mem' = mem
                    /\ host' \in (IF hit THEN {mem[c.h]} ELSE Dangling(mem[c.h], c.n))
               [] c.kind = "d2d" ->
                    /\ host' = host
                    /\ \E region \in (IF hit THEN {mem[c.from]}
                                      ELSE IF c.h \in live THEN Dangling(mem[c.from], c.n)
                                      ELSE {mem[c.h]}) :
                         mem' = [mem EXCEPT ![c.h] = region]
    /\ queue' = Tail(queue)
    /\ UNCHANGED <<live, bufs, src, raw, pc>>

TestNext ==
    \/ \E size \in SliceLens : TestUninitialized(size)
    \/ \E size \in SliceLens : TestZeroed(size)
    \/ TestFromSlice
    \/ TestFromSliceAsync
    \/ \E b \in BagToSet(bufs) : TestCopyTo(b)
    \/ \E b \in BagToSet(bufs) : TestCopyFrom(b)
    \/ \E b \in BagToSet(bufs) : TestAsyncCopyTo(b)
    \/ \E b \in BagToSet(bufs) : TestAsyncCopyFrom(b)
    \/ \E b, c \in BagToSet(bufs) : TestCopyFromDevice(b, c)
    \/ \E b, c \in BagToSet(bufs) : TestCopyToDevice(b, c)
    \/ \E b, c \in BagToSet(bufs) : TestAsyncCopyFromDevice(b, c)
    \/ \E b, c \in BagToSet(bufs) : TestAsyncCopyToDevice(b, c)
    \/ \E b \in BagToSet(bufs) : TestScopeExit(b)
    \/ TestSynchronize
    \/ TestStreamRun

SpecTests == TestInit /\ [][TestNext]_vars

\* ------------------------------------------------- raw parts and views
\* The client of the from_raw_parts example: it takes a buffer's pointer and
\* length, forgets the buffer and adopts the parts again; it also adopts
\* parts that no allocation stands behind, and borrows buffers as views.
RawParts(ptr, size, esz, state) ==
    [ptr |-> ptr, size |-> size, esz |-> esz, state |-> state]
\* Parts with a pointer that own nothing: no elements, or elements of a
\* zero-sized type.
LooseParts ==
    {RawParts(p, n, e, "loose") : p \in Handles, n \in SliceLens, e \in ElemSizes}
        \ {RawParts(p, n, e, "loose") : p \in Handles, n \in SliceLens \ {0}, e \in ElemSizes \ {0}}
Forgotten == raw # <<>> /\ raw[1].state = "forgotten"

\* let ptr = buffer.as_device_ptr(); let size = buffer.len(); mem::forget(buffer);
IntoRawParts(b) ==
    /\ Holds(b)
    /\ ~Forgotten
    /\ raw' = <<RawParts(b.buf, b.capacity, b.esz, "forgotten")>>
    /\ bufs' = Take(b)
    /\ last' = [op |-> "forget", size |-> b.capacity, esz |-> b.esz, arg |-> <<b>>,
                ok |-> TRUE, err |-> "", ret |-> <<>>, residual |-> <<>>, calls |-> <<>>]
    /\ UNCHANGED <<live, queue, mem, src, host, pc>>

\* let buffer = unsafe { DeviceBuffer::from_raw_parts(ptr, size) }
FromRawParts(parts) ==
    /\ BagCardinality(bufs) < MaxBufs
    /\ parts \in LooseParts \/ (Forgotten /\ parts = raw[1])
    /\ LET b == from_raw_parts(parts.ptr, parts.size, parts.esz)
       IN /\ bufs' = Give(bufs, b)
          /\ last' = [op |-> "from_raw_parts", size |-> parts.size, esz |-> parts.esz,
                      arg |-> <<parts>>, ok |-> TRUE, err |-> "", ret |-> <<b>>,
                      residual |-> <<>>, calls |-> <<>>]
    /\ raw' = IF parts \in LooseParts THEN raw ELSE <<[raw[1] EXCEPT !.state = "adopted"]>>
    /\ UNCHANGED <<live, queue, mem, src, host, pc>>

\* let view: &DeviceSlice<T> = &*b
Deref(b) ==
    /\ Holds(b)
    /\ last' = [op |-> "deref", size |-> b.capacity, esz |-> b.esz, arg |-> <<b>>,
                ok |-> TRUE, err |-> "", ret |-> <<deref(b)>>, residual |-> <<>>,
                calls |-> <<>>]
    /\ UNCHANGED <<live, queue, bufs, mem, src, host, raw, pc>>

\* let view: &mut DeviceSlice<T> = &mut *b
DerefMut(b) ==
    /\ Holds(b)
    /\ last' = [op |-> "deref_mut", size |-> b.capacity, esz |-> b.esz, arg |-> <<b>>,
                ok |-> TRUE, err |-> "", ret |-> <<deref_mut(b)>>, residual |-> <<>>,
                calls |-> <<>>]
    /\ UNCHANGED <<live, queue, bufs, mem, src, host, raw, pc>>

RawNext ==
    \/ \E len \in SliceLens, esz \in ElemSizes : FromSlice(len, esz)
    \/ \E b \in BagToSet(bufs) : IntoRawParts(b)
    \/ \E parts \in LooseParts \cup {raw[i] : i \in DOMAIN raw} : FromRawParts(parts)
    \/ \E b \in BagToSet(bufs) : Deref(b)
    \/ \E b \in BagToSet(bufs) : DerefMut(b)
    \/ \E b \in BagToSet(bufs) : DropExplicit(b)
    \/ \E b \in BagToSet(bufs) : ScopeExit(b)

SpecRaw == Init /\ [][RawNext]_vars

\* ---------------------------------------------------------- type check
FreeCalls(calls) == SelectSeq(calls, LAMBDA c : c.prim = "free")
MallocCalls(calls) == SelectSeq(calls, LAMBDA c : c.prim = "malloc")
MemsetCalls(calls) == SelectSeq(calls, LAMBDA c : c.prim = "memset")

TypeOK ==
    /\ live \subseteq Handles
    /\ Len(queue) <= MaxQueue
    /\ IsABag(bufs)
    /\ BagCardinality(bufs) <= MaxBufs
    /\ \A b \in BagToSet(bufs) : b.buf \in {Null} \cup Handles

\* ------------------------------------------------------- vocabulary
\* A value that a device allocation stands behind.
Backed(b) == b.buf # Null /\ b.capacity > 0 /\ b.esz > 0
\* The buffer the last destroy consumed.
Arg == last.arg[1]
IsDestroy == last.op = "drop"
IsImplicit == last.op = "Drop"
FailedCalls(calls) == SelectSeq(calls, LAMBDA c : ~c.ok)
\* The handles of the allocations the last operation made.
Allocated == {last.calls[i].h : i \in {j \in DOMAIN last.calls :
                  last.calls[j].prim = "malloc" /\ last.calls[j].ok}}
Owned == {b.buf : b \in BagToSet(bufs)} \ {Null}

\* ------------------------------------------------------------- claims
\* C1: an explicit destroy of a backed buffer whose free reports an error
\* returns that error with a buffer of the same handle and capacity, which
\* the caller now owns; the allocation is still live; the consumed value's
\* destructor issued no free (one free call in all, its handle nulled); and
\* destroying the returned buffer afterwards calls free on that handle again.
C1_Failed == IsDestroy /\ Backed(Arg) /\ Len(FailedCalls(FreeCalls(last.calls))) > 0
C1_Handoff ==
    C1_Failed =>
        /\ ~last.ok
        /\ last.err = "DeallocationError"
        /\ last.ret = <<Arg>>
        /\ Holds(Arg)
        /\ Arg.buf \in live
        /\ Len(FreeCalls(last.calls)) = 1
        /\ last.residual = <<[Arg EXCEPT !.buf = Null]>>
C1_Retry ==
    (C1_Failed /\ last'.op = "drop" /\ last'.arg = last.ret) =>
        /\ Len(FreeCalls(last'.calls)) = 1
        /\ FreeCalls(last'.calls)[1].h = last.ret[1].buf
        /\ FreeCalls(last'.calls)[1].wasLive
C1_FailedDestroyHandsBack == [] C1_Handoff /\ [][C1_Retry]_vars
C1_Witness == C1_Failed /\ ~last.ok /\ Holds(Arg)

\* C2: when zeroed returns an error, no allocation made by that call
\* remains live.
C2_ZeroFillFailureFrees ==
    (last.op = "zeroed" /\ ~last.ok) => Allocated \cap live = {}

\* C3: when an operation returns, every allocation it made or was asked to
\* destroy has been released exactly once: it is gone after one free call,
\* or a buffer value the caller holds owns it (a constructor's result, or
\* the buffer a failed explicit destroy hands back).  A free that a
\* destructor issued once and whose error it discarded counts as the release
\* of that path.
Touched == Allocated \cup {last.arg[i].buf : i \in DOMAIN last.arg}
FreedOnce(h) ==
    Len(SelectSeq(FreeCalls(last.calls), LAMBDA c : c.h = h /\ c.wasLive)) = 1
C3_ReleasedOnEveryPath ==
    /\ \A h \in Touched \cap live : h \in Owned \/ FreedOnce(h)
    /\ \A h \in (Touched \ {Null}) \ live : FreedOnce(h)
    /\ \A i \in DOMAIN FreeCalls(last.calls) : FreeCalls(last.calls)[i].wasLive

\* C4: free is never invoked on a handle whose allocation is gone: every
\* free call targets a live allocation, a value whose handle was passed to
\* free is left with the null handle or is forgotten, and no value the
\* caller holds keeps a handle that was freed.
C4_NoDoubleFree ==
    /\ \A i \in DOMAIN FreeCalls(last.calls) : FreeCalls(last.calls)[i].wasLive
    /\ Owned \subseteq live
    /\ \A i \in DOMAIN last.residual : last.residual[i].buf = Null
    /\ (IsDestroy /\ last.ok /\ Backed(Arg)) => last.residual = <<>>
C4_Witness ==
    /\ IsDestroy /\ last.ok /\ Backed(Arg)
    /\ Len(FreeCalls(last.calls)) = 1
    /\ Arg.buf \notin live

\* C5: for size 0 or a zero-sized element type, uninitialized and zeroed
\* succeed with no driver call at all and give the null handle with capacity
\* size; destroying such a buffer, explicitly or implicitly, calls no free,
\* and the explicit destroy returns success.
C5_ZeroSizedIsNoOp ==
    /\ (last.op \in {"uninitialized", "zeroed"} /\ (last.size = 0 \/ last.esz = 0)) =>
           /\ last.ok
           /\ last.calls = <<>>
           /\ last.ret = <<DeviceBuffer(Null, last.size, last.esz)>>
    /\ ((IsDestroy \/ IsImplicit) /\ Arg.buf = Null
            /\ (Arg.capacity = 0 \/ Arg.esz = 0)) =>
           /\ last.ok
           /\ last.calls = <<>>
C5_Witness ==
    /\ IsDestroy /\ Arg.buf = Null /\ Arg.capacity > 0 /\ Arg.esz = 0
    /\ last.ok

\* C6: for n > 0 and a nonzero element size, uninitialized(n) calls the
\* allocation primitive exactly once, for n elements; on success the buffer
\* has capacity n and the non-null handle of the new allocation; on failure
\* the error is returned, no buffer is created and nothing was allocated.
C6_Result ==
    (last.op = "uninitialized" /\ last.size > 0 /\ last.esz > 0) =>
        /\ Len(last.calls) = 1
        /\ last.calls[1].prim = "malloc"
        /\ last.calls[1].n = last.size
        /\ last.ok = last.calls[1].ok
        /\ IF last.ok
           THEN /\ last.ret = <<DeviceBuffer(last.calls[1].h, last.size, last.esz)>>
                /\ last.ret[1].buf # Null
                /\ last.ret[1].buf \in live
                /\ Holds(last.ret[1])
           ELSE /\ last.ret = <<>>
                /\ last.err \in {"OutOfMemory", "InvalidMemoryAllocation"}
                /\ Allocated = {}
C6_FailureFrame ==
    (last'.op = "uninitialized" /\ ~last'.ok) => (live' = live /\ bufs' = bufs)
C6_UninitializedAllocatesOnce == [] C6_Result /\ [][C6_FailureFrame]_vars
C6_Witness ==
    /\ last.op = "uninitialized" /\ last.size > 0 /\ last.esz > 0
    /\ last.ok /\ last.ret[1].capacity = last.size /\ last.ret[1].buf \in live

\* C7: when size * element size does not fit usize, uninitialized and
\* zeroed return the invalid-allocation-size error; no buffer is created,
\* nothing is allocated and no zero-fill is issued.
C7_Overflow ==
    /\ last.op \in {"uninitialized", "zeroed"}
    /\ last.size > 0 /\ last.esz > 0
    /\ last.size * last.esz > UsizeMax
C7_OverflowIsReported ==
    C7_Overflow =>
        /\ ~last.ok
        /\ last.err = "InvalidMemoryAllocation"
        /\ last.ret = <<>>
        /\ Allocated = {}
        /\ MemsetCalls(last.calls) = <<>>
C7_Witness == C7_Overflow /\ last.op = "zeroed" /\ ~last.ok

\* C8 (as stated): when the copy of from_slice / from_slice_async reports an
\* error, that error is returned, no buffer is returned, and the allocation
\* the call made has been released when the call returns.
C8_CopyFailed ==
    /\ last.op \in {"from_slice", "from_slice_async"}
    /\ \E i \in DOMAIN last.calls :
         last.calls[i].prim \in {"copy", "copy_async"} /\ ~last.calls[i].ok
C8_CopyFailureReleases ==
    C8_CopyFailed =>
        /\ ~last.ok /\ last.err = "CopyError" /\ last.ret = <<>>
        /\ Len(FreeCalls(last.calls)) = 1
        /\ Allocated \cap live = {}
\* C8 (amended): ... no buffer is returned, and the destructor of the
\* unreturned buffer calls free exactly once, on the allocation the call
\* made, before the call returns; the allocation is released exactly when
\* that free succeeds (its error is discarded).
C8_CopyFailureFreesOnce ==
    C8_CopyFailed =>
        /\ ~last.ok /\ last.err = "CopyError" /\ last.ret = <<>>
        /\ Len(last.calls) = 3
        /\ last.calls[1].prim = "malloc" /\ last.calls[1].ok
        /\ last.calls[3].prim = "free" /\ last.calls[3].h = last.calls[1].h
        /\ last.calls[3].wasLive
        /\ (last.calls[1].h \in live) = ~last.calls[3].ok
C8_Witness ==
    /\ C8_CopyFailed /\ last.op = "from_slice_async"
    /\ Len(FreeCalls(last.calls)) = 1 /\ FreeCalls(last.calls)[1].ok
    /\ Allocated \cap live = {}

\* C9: an explicit destroy returns success whenever the handle is null or
\* the free succeeds; for a backed buffer it calls free exactly once, on the
\* buffer's handle; after success the allocation is gone, the consumed value
\* runs no destructor and no value keeps the handle, so no further free of
\* it can be issued.
C9_HealthyDestroySucceeds ==
    IsDestroy =>
        /\ (Arg.buf = Null \/ FailedCalls(FreeCalls(last.calls)) = <<>>) => last.ok
        /\ Backed(Arg) =>
              /\ Len(FreeCalls(last.calls)) = 1
              /\ FreeCalls(last.calls)[1].h = Arg.buf
        /\ (Backed(Arg) /\ last.ok) =>
              /\ Arg.buf \notin live
              /\ Arg.buf \notin Owned
              /\ last.residual = <<>>
C9_Witness ==
    /\ IsDestroy /\ Backed(Arg) /\ last.ok
    /\ FreeCalls(last.calls)[1].ok

\* C10: the implicit destructor of a backed buffer calls free exactly once,
\* on the buffer's handle, reports nothing whatever free returns, and leaves
\* the value with the null handle.
C10_ImplicitDropIsBestEffort ==
    (IsImplicit /\ Backed(Arg)) =>
        /\ last.ok /\ last.err = ""
        /\ Len(FreeCalls(last.calls)) = 1
        /\ FreeCalls(last.calls)[1].h = Arg.buf
        /\ Len(last.residual) = 1
        /\ last.residual[1].buf = Null
        /\ (Arg.buf \in live) = ~FreeCalls(last.calls)[1].ok
C10_Witness ==
    /\ IsImplicit /\ Backed(Arg)
    /\ Len(FailedCalls(FreeCalls(last.calls))) = 1
    /\ last.residual[1].buf = Null

\* C11: in the order of test_async_copy_to_from_device (from_slice_async,
\* async_copy_to into a destination of the same length, the buffer goes
\* out of scope, stream.synchronize()), once synchronize has returned the
\* destination equals the source array element for element.
C11_AsyncRoundTrip ==
    pc = <<"from_slice_async", "async_copy_to", "Drop", "synchronize">> =>
        host = src.data

\* C12: from_slice gives a buffer whose capacity is the length of the
\* source array, and a copy_to from it into a destination of that length
\* leaves the destination equal to the source array element for element.
C12_SyncRoundTrip ==
    /\ pc = <<"from_slice">> =>
           /\ last.ret = <<DeviceBuffer(last.ret[1].buf, Len(src.data), src.esz)>>
           /\ Holds(last.ret[1])
    /\ pc = <<"from_slice", "copy_to">> => host = src.data
C12_Witness ==
    /\ pc = <<"from_slice", "copy_to">>
    /\ src.esz > 0
    /\ Len(src.data) > 0
    /\ host = src.data

\* C13: a copy through a view between regions of different lengths, in any
\* direction, blocking or stream-ordered, panics before any driver call:
\* nothing is enqueued, and the destination array and device memory are as
\* they were.
CopyOps ==
    {"copy_to", "copy_from", "async_copy_to", "async_copy_from",
     "copy_from_device", "copy_to_device",
     "async_copy_from_device", "async_copy_to_device"}
C13_Mismatch == last.op \in CopyOps /\ last.size # last.arg[1].capacity
C13_Panics ==
    C13_Mismatch =>
        /\ ~last.ok
        /\ last.err = "panic"
        /\ last.calls = <<>>
        /\ pc[Len(pc)] = "panic"
C13_WritesNothing ==
    C13_Mismatch' =>
        /\ host' = host
        /\ mem' = mem
        /\ queue' = queue
        /\ live' = live
C13_MismatchedCopyFails == [] C13_Panics /\ [][C13_WritesNothing]_vars
C13_Witness == C13_Mismatch /\ Backed(last.arg[1]) /\ ~last.ok

\* C14: after a successful zeroed(n) with n > 0 and a nonzero element size
\* the buffer has capacity n and every element of its allocation is zero,
\* and a copy_to made next into an n-element destination leaves every
\* element of the destination zero.
C14_ZeroedIsZero ==
    /\ (pc = <<"zeroed">> /\ last.size > 0 /\ src.esz > 0) =>
           /\ last.ret[1].capacity = last.size
           /\ mem[last.ret[1].buf] = Fill(last.size, Zero)
    /\ (pc = <<"zeroed", "copy_to">> /\ Len(host) > 0 /\ src.esz > 0) =>
           host = Fill(Len(host), Zero)
C14_Witness ==
    /\ pc = <<"zeroed", "copy_to">>
    /\ src.esz > 0
    /\ Len(host) > 0
    /\ host = Fill(Len(host), Zero)

\* C15: from_raw_parts always succeeds, makes no driver call, leaves the
\* allocations as they are and gives a buffer of exactly the pointer and
\* capacity it was given; forgetting a buffer frees nothing; adopting the
\* parts of a forgotten buffer gives a buffer that alone owns the same, still
\* live, allocation; and destroying a buffer behind which an allocation
\* stands calls free exactly once, on its handle, while it is live.
SoleOwner(b) ==
    /\ CopiesIn(b, bufs) = 1
    /\ \A c \in BagToSet(bufs) : (Backed(c) /\ c.buf = b.buf) => c = b
C15_Adopts ==
    /\ last.op = "from_raw_parts" =>
           /\ last.ok
           /\ last.calls = <<>>
           /\ last.ret = <<DeviceBuffer(Arg.ptr, Arg.size, Arg.esz)>>
           /\ Holds(last.ret[1])
           /\ (Arg.state = "forgotten" /\ Backed(last.ret[1])) =>
                  (last.ret[1].buf \in live /\ SoleOwner(last.ret[1]))
    /\ last.op = "forget" =>
           /\ last.calls = <<>>
           /\ raw = <<RawParts(Arg.buf, Arg.capacity, Arg.esz, "forgotten")>>
           /\ Backed(Arg) => Arg.buf \in live
    /\ ((IsDestroy \/ IsImplicit) /\ Backed(Arg)) =>
           /\ Len(FreeCalls(last.calls)) = 1
           /\ FreeCalls(last.calls)[1].h = Arg.buf
           /\ FreeCalls(last.calls)[1].wasLive
C15_NoDriverCall ==
    last'.op \in {"from_raw_parts", "forget"} => live' = live
C15_RawRoundTrip == [] C15_Adopts /\ [][C15_NoDriverCall]_vars
C15_Witness ==
    /\ IsDestroy /\ last.ok /\ Backed(Arg)
    /\ raw = <<RawParts(Arg.buf, Arg.capacity, Arg.esz, "adopted")>>
    /\ Len(FreeCalls(last.calls)) = 1
    /\ Arg.buf \notin live

\* C16: deref and deref_mut give a view whose length is the buffer's
\* capacity and whose address is the buffer's handle; they make no driver
\* call, and the buffers held, the allocations, the stream and device memory
\* are as before.
C16_View ==
    last.op \in {"deref", "deref_mut"} =>
        /\ last.ret[1].len = Arg.capacity
        /\ last.ret[1].ptr = Arg.buf
        /\ last.calls = <<>>
        /\ Holds(Arg)
C16_Frame ==
    last'.op \in {"deref", "deref_mut"} => UNCHANGED <<live, queue, bufs, mem>>
C16_ViewIsTheBuffer == [] C16_View /\ [][C16_Frame]_vars
C16_Witness ==
    /\ last.op = "deref_mut"
    /\ Backed(Arg)
    /\ last.ret = <<DeviceSlice(Arg.buf, Arg.capacity, Arg.esz)>>

\* C17: after the implicit destructor has run on a value, whether on a
\* buffer going out of scope or on the value an explicit destroy consumed,
\* the value's handle is null and its capacity is zero.
C17_DestructorResets ==
    (IsImplicit \/ IsDestroy) =>
        \A i \in DOMAIN last.residual :
            last.residual[i].buf = Null /\ last.residual[i].capacity = 0

\* C18, as stated: every buffer value, the value an explicit destroy
\* consumed included, has the null handle exactly when its capacity is zero
\* or its element type has zero size; every non-null handle of a value
\* denotes a live allocation; no allocation is owned by two values.
NullIffEmpty(b) == (b.buf = Null) <=> (b.capacity = 0 \/ b.esz = 0)
C18_Ownership ==
    /\ \A b \in BagToSet(bufs) : b.buf # Null => (b.buf \in live /\ SoleOwner(b))
    /\ \A i \in DOMAIN last.residual : last.residual[i].buf = Null
C19_NoCopyAfterFree == last.op = "stream_run" => last.ok

\* C20: destroying a buffer that has a non-null handle with capacity zero
\* or a zero-sized element type makes no driver call: the explicit destroy
\* returns Ok, and after either destruction the value still has its handle.
C20_Loose == Arg.buf # Null /\ ~Backed(Arg)
C20_LooseIsNeverFreed ==
    /\ (IsDestroy /\ C20_Loose) =>
           /\ last.ok
           /\ last.ret = <<>>
           /\ last.calls = <<>>
           /\ last.residual = <<[Arg EXCEPT !.capacity = 0]>>
    /\ (IsImplicit /\ C20_Loose) =>
           /\ last.calls = <<>>
           /\ last.residual = <<[Arg EXCEPT !.capacity = 0]>>
C20_Witness ==
    /\ IsDestroy /\ C20_Loose
    /\ Arg.buf \in live
    /\ last.residual[1].buf = Arg.buf
====
